---- MODULE Spec2Model ----
(***************************************************************************)
(* vault-manager: reconciliation of secrets engines, policies and audit    *)
(* devices of several Vault instances against a declarative configuration. *)
(*                                                                         *)
(* Modelled from                                                           *)
(*   src/toplevel/secretsengine/secretsengine.go  (packages secretsengine  *)
(*                                                 and policy)              *)
(*   src/unnamed/part_000                          (package audit)          *)
(* The packages pkg/vault (DiffItems, the instance list, AddInvalid,       *)
(* RemoveInstanceFromReconciliation, the remote calls) and the bounded     *)
(* wait group of pkg/utils are not part of the sources at hand; they are   *)
(* modelled from the specification's sections 4.2, 4.3 and 4.4.            *)
(***************************************************************************)
EXTENDS Integers, Sequences, FiniteSets, TLC

(***************************************************************************)
(* Bounds of the model.                                                    *)
(***************************************************************************)
\* number of distinct values a compared field (type, description, rules) takes
NumValues == 2
\* longest desired / observed sequence handed to DiffItems in SpecDiff
MaxLen == 3

\* most entries of one kind in the configuration, most objects of one kind on the servers
MaxEntries == 2
MaxObjects == 2
\* largest threadPoolSize and longest list of existing policy names in SpecPool
MaxPool == 2
MaxUnits == 3

Values == 1..NumValues

\* keys used by the stand-alone check of DiffItems
DiffKeys == {"a", "b", "c"}

Kinds == {"audit", "engines", "policy"}

(***************************************************************************)
(* Sequence helpers.                                                       *)
(***************************************************************************)
Range(s) == {s[i] : i \in 1..Len(s)}

KeysOf(s) == {s[i].key : i \in 1..Len(s)}

UniqueKeys(s) == \A i, j \in 1..Len(s) : s[i].key = s[j].key => i = j

\* how often key k occurs in s
Count(s, k) == Cardinality({i \in 1..Len(s) : s[i].key = k})

\* the sequences over S of length at most n
SeqUpTo(S, n) == UNION {[1..m -> S] : m \in 0..n}

(***************************************************************************)
(* Entries.  One record shape serves the three packages' entry types:      *)
(*   key   Path (secretsengine, audit) or Name (policy)                    *)
(*   inst  Instance.Address; "" where the code leaves Instance unset       *)
(*   type, description   0 where the code leaves them unset                *)
(*   rules               the policy body, 0 for the other kinds            *)
(* Options are empty in every modelled entry.                              *)
(***************************************************************************)
Entry(k, i, t, d, r) == [key |-> k, inst |-> i, type |-> t, description |-> d, rules |-> r]

\* entry.Key()
Key(e) == e.key

\* secretsengine entry.Equals / audit entry.Equals: path, type, description
\* (and the options, empty here)
MountEquals(e, o) ==
    /\ e.key = o.key
    /\ e.type = o.type
    /\ e.description = o.description

\* policy entry.Equals: name and rules
PolicyEquals(e, o) == e.key = o.key /\ e.rules = o.rules

\* the Equals of the entry type of package kind
Equals(kind, e, o) == IF kind = "policy" THEN PolicyEquals(e, o) ELSE MountEquals(e, o)

(***************************************************************************)
(* asItems: copies the entries one by one into a fresh []vault.Item.       *)
(***************************************************************************)
RECURSIVE asItemsFrom(_, _, _)
asItemsFrom(xs, i, items) ==
    IF i > Len(xs) THEN items ELSE asItemsFrom(xs, i + 1, Append(items, xs[i]))

\* a copy loop that starts one element late
asItems_SkipFirst(xs) == asItemsFrom(xs, 2, <<>>)

\* a copy loop that puts each entry in front of the ones copied before it
asItems_Prepend(xs) == [i \in 1..Len(xs) |-> xs[Len(xs) + 1 - i]]

asItems(xs) == asItemsFrom(xs, 1, <<>>)

(***************************************************************************)
(* vault.DiffItems (specification 4.2).  The lookup maps each observed key *)
(* to its item; a desired item whose key is absent is to be written, one   *)
(* whose key is present and whose Equals is false is to be updated; either *)
(* way a present key is consumed.  The unconsumed observed items are to be *)
(* deleted, in the order of the observed sequence.  The result is the      *)
(* triple the call sites bind: <<toBeWritten, toBeDeleted, toBeUpdated>>.  *)
(***************************************************************************)
Lookup(observed, k) ==
    LET hits == {i \in 1..Len(observed) : observed[i].key = k}
    IN  IF hits = {} THEN <<>>
        ELSE <<observed[CHOOSE i \in hits : \A j \in hits : j <= i]>>

\* marks key k of the lookup consumed
MarkConsumed(consumed, k) == consumed \cup {k}

RECURSIVE DiffDesired(_, _, _, _, _)
\* the pass over desired: acc = <<toCreate, toUpdate, consumed>>
DiffDesired(kind, desired, observed, i, acc) ==
    IF i > Len(desired) THEN acc
    ELSE LET item == desired[i]
             hit  == Lookup(observed, item.key)
         IN  IF hit = <<>>
             THEN DiffDesired(kind, desired, observed, i + 1,
                              <<Append(acc[1], item), acc[2], acc[3]>>)
             ELSE IF ~Equals(kind, item, hit[1])
             THEN DiffDesired(kind, desired, observed, i + 1,
                              <<acc[1], Append(acc[2], item), MarkConsumed(acc[3], item.key)>>)
             ELSE DiffDesired(kind, desired, observed, i + 1,
                              <<acc[1], acc[2], MarkConsumed(acc[3], item.key)>>)

Unconsumed(observed, consumed) ==
    LET keep(o) == o.key \notin consumed
    IN  SelectSeq(observed, keep)

DiffItems(kind, desired, observed) ==
    LET acc == DiffDesired(kind, desired, observed, 1, <<<<>>, <<>>, {}>>)
    IN  <<acc[1], Unconsumed(observed, acc[3]), acc[2]>>

(***************************************************************************)
(* State.                                                                  *)
(***************************************************************************)
VARIABLES
    \* SpecDiff: one call of DiffItems as the Apply functions make it
    diffIn,         \* [kind, desired, observed]: the entries of the call
    diffOut,        \* <<>> before the call, <<toBeWritten, toBeDeleted, toBeUpdated>> after
    \* SpecPool: the fetch fan-out of package policy for one instance
    threadPoolSize, \* the pool size handed to Apply
    existingPolicyNames, \* the names listed for the instance
    bwg,            \* the bounded wait group: [size, out]
    mutex,          \* 0 when free, else the goroutine that holds it
    fan,            \* the launching loop: [pc, i]
    gpc,            \* each goroutine's position
    policy,         \* each goroutine's local: the rules it fetched (0: the fetch failed,
                    \* -1: not fetched yet)
    existingPolicies, \* instancesToExistingPolicies[instance]
    slice,          \* each goroutine's read of instancesToExistingPolicies[instance] in append
    \* the instance registry of pkg/vault
    InstanceAddresses, \* the stored address list
    invalidInstances,  \* the addresses marked invalid
    \* SpecRegistry: concurrent callers of the registry
    regLock,        \* "" when free, else who holds the registry's lock
    marker,         \* per address, the caller of AddInvalid for it: [pc, tmp]
    reader,         \* a caller that reads the address list again and again: [pc, result]
    \* Spec: one run, the Apply of audit, secretsengine and policy in turn
    dryRun,         \* Apply's dryRun argument
    mod,            \* the position in RunOrder of the Apply that runs
    pc,             \* where that Apply is
    entries,        \* its decoded entries
    remote,         \* per instance, the objects of the Apply's kind on the server
    remote0,        \* remote as it was when the Apply began
    existing,       \* per instance, the entries built from what the server listed
    addrs,          \* the address list the reconcile loop ranges over
    ai,             \* the loop's position in addrs
    todo,           \* audit: what is left of toBeWritten and toBeDeleted for addrs[ai]
    ops,            \* the remote calls (and dry-run reports) this Apply has made, in order
    marked,         \* the addresses AddInvalid was called with in this run
    markedBefore    \* those marked by an Apply that has returned

diffVars == <<diffIn, diffOut>>
poolVars == <<threadPoolSize, existingPolicyNames, bwg, mutex, fan, gpc, policy, existingPolicies,
             slice>>
regVars == <<InstanceAddresses, invalidInstances, regLock, marker, reader>>
runVars == <<dryRun, mod, pc, entries, remote, remote0, existing, addrs, ai, todo, ops, marked, markedBefore>>
vars == <<diffVars, poolVars, regVars, runVars>>

(***************************************************************************)
(* The instances, the order of the Apply functions, the keys of each kind. *)
(***************************************************************************)
\* the configured instance addresses, in configured order
Addrs == <<"x", "y">>

AddrSet == {Addrs[i] : i \in 1..Len(Addrs)}

\* the orchestrator reconciles audit devices first, then secrets engines, then policies
RunOrder == <<"audit", "engines", "policy">>

KindKeys(kind) ==
    IF kind = "audit" THEN <<"file/", "syslog/">>
    ELSE IF kind = "engines" THEN <<"kv/", "pki/", "sys/raw/">>
    ELSE <<"app", "default">>

\* the keys the configuration can name: the servers can hold an engine (pki/)
\* that no configuration of the model names
DesiredKeys(kind) ==
    IF kind = "engines" THEN <<"kv/", "sys/raw/">> ELSE KindKeys(kind)

(***************************************************************************)
(* The values of the parts of the state a specification does not use.      *)
(***************************************************************************)
DiffIdle == diffIn = [kind |-> "none", desired |-> <<>>, observed |-> <<>>] /\ diffOut = <<>>

PoolIdle ==
    /\ threadPoolSize = 0
    /\ existingPolicyNames = <<>>
    /\ bwg = [size |-> 0, out |-> 0]
    /\ mutex = 0
    /\ fan = [pc |-> "off", i |-> 0]
    /\ gpc = <<>>
    /\ policy = <<>>
    /\ existingPolicies = <<>>
    /\ slice = <<>>

NoTodo == [toBeWritten |-> <<>>, toBeDeleted |-> <<>>]

CallersIdle == regLock = "" /\ marker = <<>> /\ reader = [pc |-> "off", result |-> <<>>]

RegIdle == InstanceAddresses = <<>> /\ invalidInstances = {} /\ CallersIdle

RunIdle ==
    /\ dryRun = FALSE /\ mod = 0 /\ pc = "off"
    /\ entries = <<>>
    /\ remote = [a \in AddrSet |-> {}] /\ remote0 = [a \in AddrSet |-> {}]
    /\ existing = [a \in AddrSet |-> <<>>]
    /\ addrs = <<>> /\ ai = 0 /\ todo = NoTodo /\ ops = <<>>
    /\ marked = {} /\ markedBefore = {}

(***************************************************************************)
(* utils.BoundedWaitGroup (specification 4.3): a counting limiter of size  *)
(* N.  Add(1) blocks until fewer than N units are outstanding and takes a  *)
(* slot, Done() returns it, Wait() blocks until no slot is taken.          *)
(***************************************************************************)
NewBoundedWaitGroup(n) == [size |-> n, out |-> 0]

\* a limiter that lets every Add(1) proceed
CanAdd_Unbounded(b) == TRUE

\* Add(1) can proceed
CanAdd(b) == b.out < b.size

\* Add(1), once it proceeds
Add(b) == [b EXCEPT !.out = @ + 1]

\* Done()
Done(b) == [b EXCEPT !.out = @ - 1]

\* Wait() can return
CanWait(b) == b.out = 0

(***************************************************************************)
(* The fetch fan-out of policy.Apply for one instance: the loop launches   *)
(* one goroutine per existing policy name, each after bwg.Add(1); the      *)
(* goroutine fetches the policy, appends it under the mutex and, on        *)
(* return, runs its deferred mutex.Unlock() and then bwg.Done().           *)
(***************************************************************************)
PolicyNames == <<"app", "default", "ops", "root", "team">>

Units == 1..Len(existingPolicyNames)

\* existingPolicyNames != nil; mutex, bwg := ..., NewBoundedWaitGroup(threadPoolSize)
InitPool ==
    /\ DiffIdle /\ RegIdle /\ RunIdle
    /\ threadPoolSize \in 1..MaxPool
    /\ \E m \in 1..MaxUnits : existingPolicyNames = SubSeq(PolicyNames, 1, m)
    /\ bwg = NewBoundedWaitGroup(threadPoolSize)
    /\ mutex = 0
    /\ fan = [pc |-> "loop", i |-> 1]
    /\ gpc = [u \in Units |-> "idle"]
    /\ policy = [u \in Units |-> -1]
    /\ existingPolicies = <<>>
    /\ slice = [u \in Units |-> <<>>]

\* a loop body that launches the goroutine without bwg.Add(1)
Launch_NoAdd ==
    /\ fan.pc = "loop" /\ fan.i <= Len(existingPolicyNames)
    /\ gpc' = [gpc EXCEPT ![fan.i] = "get"]
    /\ fan' = [fan EXCEPT !.i = @ + 1]
    /\ UNCHANGED <<slice, threadPoolSize, existingPolicyNames, bwg, mutex, policy, existingPolicies, diffVars, regVars, runVars>>

\* for i := range existingPolicyNames { bwg.Add(1); go func(i int) {...}(i) }
Launch ==
    /\ fan.pc = "loop" /\ fan.i <= Len(existingPolicyNames)
    /\ CanAdd(bwg)
    /\ bwg' = Add(bwg)
    /\ gpc' = [gpc EXCEPT ![fan.i] = "get"]
    /\ fan' = [fan EXCEPT !.i = @ + 1]
    /\ UNCHANGED <<slice, threadPoolSize, existingPolicyNames, mutex, policy, existingPolicies, diffVars, regVars, runVars>>

\* a loop that goes on without waiting for the goroutines
Wait_NoWait ==
    /\ fan.pc = "loop" /\ fan.i > Len(existingPolicyNames)
    /\ fan' = [fan EXCEPT !.pc = "returned"]
    /\ UNCHANGED <<slice, threadPoolSize, existingPolicyNames, bwg, mutex, gpc, policy, existingPolicies, diffVars, regVars, runVars>>

\* bwg.Wait()
Wait ==
    /\ fan.pc = "loop" /\ fan.i > Len(existingPolicyNames)
    /\ CanWait(bwg)
    /\ fan' = [fan EXCEPT !.pc = "returned"]
    /\ UNCHANGED <<slice, threadPoolSize, existingPolicyNames, bwg, mutex, gpc, policy, existingPolicies, diffVars, regVars, runVars>>

\* name := existingPolicyNames[i]; policy := vault.GetVaultPolicy(instance, name)
GetVaultPolicy(u) ==
    /\ gpc[u] = "get"
    /\ \E rules \in {0} \cup Values : policy' = [policy EXCEPT ![u] = rules]
    /\ gpc' = [gpc EXCEPT ![u] = "lock"]
    /\ UNCHANGED <<slice, threadPoolSize, existingPolicyNames, bwg, mutex, fan, existingPolicies, diffVars, regVars, runVars>>

\* a goroutine that goes on without holding the mutex
Lock_NoMutex(u) ==
    /\ gpc[u] = "lock"
    /\ mutex' = u
    /\ gpc' = [gpc EXCEPT ![u] = "append"]
    /\ UNCHANGED <<slice, threadPoolSize, existingPolicyNames, bwg, fan, policy, existingPolicies, diffVars, regVars, runVars>>

\* mutex.Lock()
Lock(u) ==
    /\ gpc[u] = "lock"
    /\ mutex = 0
    /\ mutex' = u
    /\ gpc' = [gpc EXCEPT ![u] = "append"]
    /\ UNCHANGED <<slice, threadPoolSize, existingPolicyNames, bwg, fan, policy, existingPolicies, diffVars, regVars, runVars>>

\* append(instancesToExistingPolicies[instance], ...) reads the slice of the map
ReadPolicies(u) ==
    /\ gpc[u] = "append"
    /\ slice' = [slice EXCEPT ![u] = existingPolicies]
    /\ gpc' = [gpc EXCEPT ![u] = "store"]
    /\ UNCHANGED <<threadPoolSize, existingPolicyNames, bwg, mutex, fan, policy, existingPolicies, diffVars, regVars, runVars>>

\* instancesToExistingPolicies[instance] = append(..., entry{Name: name, Rules: policy})
\* stores the slice that was read, with the entry added
AppendPolicy(u) ==
    /\ gpc[u] = "store"
    /\ existingPolicies' = Append(slice[u], Entry(existingPolicyNames[u], "", 0, 0, policy[u]))
    /\ gpc' = [gpc EXCEPT ![u] = "unlock"]
    /\ UNCHANGED <<slice, threadPoolSize, existingPolicyNames, bwg, mutex, fan, policy, diffVars, regVars, runVars>>

\* defer mutex.Unlock(), the first deferred call to run
Unlock(u) ==
    /\ gpc[u] = "unlock"
    /\ mutex' = 0
    /\ gpc' = [gpc EXCEPT ![u] = "done"]
    /\ UNCHANGED <<slice, threadPoolSize, existingPolicyNames, bwg, fan, policy, existingPolicies, diffVars, regVars, runVars>>

\* a goroutine that returns without bwg.Done()
BwgDone_Leak(u) ==
    /\ gpc[u] = "done"
    /\ gpc' = [gpc EXCEPT ![u] = "exit"]
    /\ UNCHANGED <<slice, threadPoolSize, existingPolicyNames, bwg, mutex, fan, policy, existingPolicies, diffVars, regVars, runVars>>

\* defer bwg.Done(), the last deferred call to run
BwgDone(u) ==
    /\ gpc[u] = "done"
    /\ bwg' = Done(bwg)
    /\ gpc' = [gpc EXCEPT ![u] = "exit"]
    /\ UNCHANGED <<slice, threadPoolSize, existingPolicyNames, mutex, fan, policy, existingPolicies, diffVars, regVars, runVars>>

Goroutine(u) ==
    \/ GetVaultPolicy(u)
    \/ Lock(u)
    \/ ReadPolicies(u)
    \/ AppendPolicy(u)
    \/ Unlock(u)
    \/ BwgDone(u)

NextPool ==
    \/ Launch
    \/ Wait
    \/ \E u \in Units : Goroutine(u)

SpecPool == InitPool /\ [][NextPool]_vars

\* the Go scheduler runs every runnable goroutine: a step that stays possible is taken
FairSpecPool == SpecPool /\ WF_vars(NextPool)

(***************************************************************************)
(* SpecDiff: DiffItems on every pair of unique-key sequences of at most    *)
(* MaxLen entries.                                                         *)
(***************************************************************************)
DiffEntries(kind) ==
    IF kind = "policy"
    THEN {Entry(k, "x", 0, 0, r) : k \in DiffKeys, r \in Values}
    ELSE {Entry(k, "x", 1, d, 0) : k \in DiffKeys, d \in Values}

DiffInputs(kind) == {s \in SeqUpTo(DiffEntries(kind), MaxLen) : UniqueKeys(s)}

InitDiff ==
    /\ PoolIdle /\ RegIdle /\ RunIdle
    /\ \E kind \in Kinds : \E d \in DiffInputs(kind), o \in DiffInputs(kind) :
           diffIn = [kind |-> kind, desired |-> d, observed |-> o]
    /\ diffOut = <<>>

\* toBeWritten, toBeDeleted, toBeUpdated := vault.DiffItems(asItems(desired), asItems(existing))
DiffCall ==
    /\ diffIn.kind \in Kinds
    /\ diffOut = <<>>
    /\ diffOut' = DiffItems(diffIn.kind, asItems(diffIn.desired), asItems(diffIn.observed))
    /\ UNCHANGED <<diffIn, poolVars, regVars, runVars>>

NextDiff == DiffCall

SpecDiff == InitDiff /\ [][NextDiff]_vars

(***************************************************************************)
(* Claims about DiffItems (SpecDiff).                                      *)
(***************************************************************************)
DiffDone == diffOut # <<>>

\* the entry of sequence s with key k (s holds k once)
ItemOf(s, k) == s[CHOOSE i \in 1..Len(s) : s[i].key = k]

\* how often key k occurs in toBeWritten, toBeDeleted, toBeUpdated
Occurrences(k) == <<Count(diffOut[1], k), Count(diffOut[2], k), Count(diffOut[3], k)>>

\* C1: DiffItems puts every key in exactly one of four classes: a key only in
\* desired is once in toBeWritten and nowhere else, a key only in observed is once
\* in toBeDeleted and nowhere else, a key in both is once in toBeUpdated and
\* nowhere else when Equals is false and in no output when Equals is true.
C1_DiffPartition ==
    DiffDone =>
        \A k \in DiffKeys :
            LET inD == k \in KeysOf(diffIn.desired)
                inO == k \in KeysOf(diffIn.observed)
            IN  Occurrences(k) =
                    IF inD /\ ~inO THEN <<1, 0, 0>>
                    ELSE IF inO /\ ~inD THEN <<0, 1, 0>>
                    ELSE IF inD /\ inO /\ ~Equals(diffIn.kind, ItemOf(diffIn.desired, k),
                                                  ItemOf(diffIn.observed, k))
                    THEN <<0, 0, 1>>
                    ELSE <<0, 0, 0>>

\* a call that creates one key, updates another, deletes a third
C1_Witness ==
    /\ DiffDone
    /\ Len(diffOut[1]) = 1 /\ Len(diffOut[2]) = 1 /\ Len(diffOut[3]) = 1

DisjointKeys == KeysOf(diffIn.desired) \cap KeysOf(diffIn.observed) = {}

\* C2: on inputs with disjoint key sets DiffItems returns toBeWritten = desired and
\* toBeDeleted = observed, as sequences, and an empty toBeUpdated.
C2_DiffDisjoint ==
    (DiffDone /\ DisjointKeys) =>
        /\ diffOut[1] = diffIn.desired
        /\ diffOut[2] = diffIn.observed
        /\ diffOut[3] = <<>>

\* a call on disjoint inputs where the order of each output can be told
C2_Witness ==
    /\ DiffDone /\ DisjointKeys
    /\ Len(diffIn.observed) = 2 /\ Len(diffIn.desired) = 1
    /\ diffOut[2] = diffIn.observed /\ diffOut[1] = diffIn.desired

(***************************************************************************)
(* Claims about the bounded wait group in the fetch fan-out (SpecPool).    *)
(***************************************************************************)
\* the goroutines that were launched after bwg.Add(1) and have not run bwg.Done()
Holding == {u \in Units : gpc[u] \in {"get", "lock", "append", "store", "unlock", "done"}}

\* C4: at no point do more than threadPoolSize units hold a slot they acquired
\* and have not released.
C4_AtMostNHold == Cardinality(Holding) <= threadPoolSize

\* the pool is full while the loop still has a goroutine to launch
C4_Witness ==
    /\ threadPoolSize = 2
    /\ Cardinality(Holding) = threadPoolSize
    /\ fan.pc = "loop" /\ fan.i <= Len(existingPolicyNames)

\* C5: when bwg.Wait() has returned, every goroutine launched for the instance has
\* appended its entry and released its slot.
C5_WaitAfterAll ==
    fan.pc = "returned" =>
        \A u \in Units :
            gpc[u] # "idle" =>
                /\ gpc[u] = "exit"
                /\ existingPolicyNames[u] \in KeysOf(existingPolicies)

\* bwg.Wait() has returned from a fan-out of several goroutines
C5_Witness ==
    /\ fan.pc = "returned"
    /\ Len(existingPolicyNames) >= 2
    /\ \A u \in Units : gpc[u] = "exit"
    /\ bwg.out = 0

\* C6: under fair scheduling every bwg.Add(1) proceeds, every goroutine runs to
\* its end and bwg.Wait() returns, whether or not some fetch failed.
C6_FanOutCompletes == <>(fan.pc = "returned" /\ \A u \in Units : gpc[u] = "exit")

\* a finished fan-out of more goroutines than slots in which one fetch failed
\* and another did not
C6_Witness ==
    /\ fan.pc = "returned"
    /\ Len(existingPolicyNames) > threadPoolSize
    /\ \A u \in Units : gpc[u] = "exit"
    /\ \E u, v \in Units : policy[u] = 0 /\ policy[v] > 0

\* C17: when the fan-out for an instance is through, the entries built for it
\* are one per listed name, each with the rules its goroutine fetched, in any
\* order, whatever the pool size and the interleaving.
C17_NoLostAppend ==
    fan.pc = "returned" =>
        /\ Len(existingPolicies) = Len(existingPolicyNames)
        /\ \A u \in Units :
               Cardinality({i \in 1..Len(existingPolicies) :
                               existingPolicies[i] =
                                   Entry(existingPolicyNames[u], "", 0, 0, policy[u])}) = 1

\* a finished fan-out of three goroutines on two slots whose entries are not in
\* the order of the names
C17_Witness ==
    /\ fan.pc = "returned"
    /\ threadPoolSize = 2
    /\ Len(existingPolicyNames) = 3
    /\ Len(existingPolicies) = 3
    /\ existingPolicies[1].key = existingPolicyNames[2]
    /\ existingPolicies[3].key = existingPolicyNames[1]

(***************************************************************************)
(* SpecLeak: the same fan-out with units of work that may leave without    *)
(* bwg.Done(), the caller error of specification 4.3.                      *)
(***************************************************************************)
\* the goroutine returns and its slot is never given back
Leak(u) ==
    /\ gpc[u] = "done"
    /\ gpc' = [gpc EXCEPT ![u] = "leaked"]
    /\ UNCHANGED <<slice, threadPoolSize, existingPolicyNames, bwg, mutex, fan, policy, existingPolicies, diffVars, regVars, runVars>>

NextLeak ==
    \/ Launch
    \/ Wait
    \/ \E u \in Units : Goroutine(u)
    \/ \E u \in Units : Leak(u)

SpecLeak == InitPool /\ [][NextLeak]_vars

Leaked == {u \in Units : gpc[u] = "leaked"}

\* as many units as the pool has slots took a slot and will never give it back
Saturated == Cardinality(Leaked) >= threadPoolSize

\* C18: once threadPoolSize units have leaked their slot, that stays so and the
\* launching loop never moves again: no bwg.Add(1) proceeds and bwg.Wait() does
\* not return; bwg.Wait() has returned only where no unit leaked.
C18_LeakDeadlocks ==
    /\ [][Saturated => (Saturated' /\ fan' = fan)]_vars
    /\ [](Leaked # {} => fan.pc # "returned")

\* both slots are leaked while the loop still has a goroutine to launch
C18_Witness ==
    /\ threadPoolSize = 2
    /\ Cardinality(Leaked) = 2
    /\ fan.pc = "loop" /\ fan.i <= Len(existingPolicyNames)
    /\ bwg.out = bwg.size

(***************************************************************************)
(* The instance registry of pkg/vault (specification 4.4).  AddInvalid     *)
(* adds an address to the invalid set; the address list the Apply          *)
(* functions range over is the stored list without the invalid addresses,  *)
(* in stored order; RemoveInstanceFromReconciliation drops the invalid     *)
(* addresses from the stored list.                                         *)
(***************************************************************************)
\* an AddInvalid that loses the address
AddInvalid_Lost(invalid, a) == invalid

\* the invalid set after vault.AddInvalid(a)
AddInvalid(invalid, a) == invalid \cup {a}

\* list without the addresses of invalid, in the order of list
ValidOf(list, invalid) ==
    LET valid(a) == a \notin invalid
    IN  SelectSeq(list, valid)

\* vault.InstanceAddresses / instance.InstanceAddresses as an Apply reads it
ValidAddresses == ValidOf(InstanceAddresses, invalidInstances)

\* a removal that rebuilds the list back to front
RemoveInstanceFromReconciliation_Reversed(list, invalid) ==
    LET v == ValidOf(list, invalid)
    IN  [i \in 1..Len(v) |-> v[Len(v) + 1 - i]]

\* the stored list after vault.RemoveInstanceFromReconciliation()
RemoveInstanceFromReconciliation(list, invalid) == ValidOf(list, invalid)

(***************************************************************************)
(* SpecRegistry: AddInvalid called at once for several addresses, beside a *)
(* caller that reads the address list.  The registry is safe under         *)
(* concurrent mutation and reads (specification 4.4): each call takes the  *)
(* registry's lock, reads the invalid set, writes it back and unlocks.     *)
(***************************************************************************)
RegistryAddrs == <<"x", "y", "z">>

InitRegistry ==
    /\ DiffIdle /\ PoolIdle /\ RunIdle
    /\ InstanceAddresses = RegistryAddrs
    /\ invalidInstances = {}
    /\ regLock = ""
    /\ \E T \in SUBSET Range(RegistryAddrs) :
           marker = [a \in Range(RegistryAddrs) |->
                        [pc |-> IF a \in T THEN "call" ELSE "none", tmp |-> {}]]
    /\ reader = [pc |-> "idle", result |-> <<>>]

\* an AddInvalid that does not wait for the lock
MarkLock_NoWait(a) ==
    /\ marker[a].pc = "call"
    /\ regLock' = a
    /\ marker' = [marker EXCEPT ![a].pc = "read"]
    /\ UNCHANGED <<InstanceAddresses, invalidInstances, reader, diffVars, poolVars, runVars>>

MarkLock(a) ==
    /\ marker[a].pc = "call"
    /\ regLock = ""
    /\ regLock' = a
    /\ marker' = [marker EXCEPT ![a].pc = "read"]
    /\ UNCHANGED <<InstanceAddresses, invalidInstances, reader, diffVars, poolVars, runVars>>

MarkRead(a) ==
    /\ marker[a].pc = "read"
    /\ marker' = [marker EXCEPT ![a] = [pc |-> "write", tmp |-> invalidInstances]]
    /\ UNCHANGED <<InstanceAddresses, invalidInstances, regLock, reader, diffVars, poolVars, runVars>>

MarkWrite(a) ==
    /\ marker[a].pc = "write"
    /\ invalidInstances' = AddInvalid(marker[a].tmp, a)
    /\ marker' = [marker EXCEPT ![a].pc = "unlock"]
    /\ UNCHANGED <<InstanceAddresses, regLock, reader, diffVars, poolVars, runVars>>

MarkUnlock(a) ==
    /\ marker[a].pc = "unlock"
    /\ regLock' = ""
    /\ marker' = [marker EXCEPT ![a].pc = "returned"]
    /\ UNCHANGED <<InstanceAddresses, invalidInstances, reader, diffVars, poolVars, runVars>>

ReadLock ==
    /\ reader.pc = "idle"
    /\ regLock = ""
    /\ regLock' = "reader"
    /\ reader' = [reader EXCEPT !.pc = "read"]
    /\ UNCHANGED <<InstanceAddresses, invalidInstances, marker, diffVars, poolVars, runVars>>

ReadList ==
    /\ reader.pc = "read"
    /\ reader' = [pc |-> "unlock", result |-> ValidAddresses]
    /\ UNCHANGED <<InstanceAddresses, invalidInstances, regLock, marker, diffVars, poolVars, runVars>>

ReadUnlock ==
    /\ reader.pc = "unlock"
    /\ regLock' = ""
    /\ reader' = [reader EXCEPT !.pc = "idle"]
    /\ UNCHANGED <<InstanceAddresses, invalidInstances, marker, diffVars, poolVars, runVars>>

NextRegistry ==
    \/ \E a \in Range(RegistryAddrs) : MarkLock(a) \/ MarkRead(a) \/ MarkWrite(a) \/ MarkUnlock(a)
    \/ ReadLock
    \/ ReadList
    \/ ReadUnlock

SpecRegistry == InitRegistry /\ [][NextRegistry]_vars

Without(objs, k) == {o \in objs : o.key # k}

\* vault.EnableSecretsEngine / vault.EnableAuditDevice: mounts type, description at path
EnableMount(objs, ent) ==
    Without(objs, ent.key) \cup {Entry(ent.key, "", ent.type, ent.description, 0)}

\* vault.UpdateSecretsEngine with MountConfigInput{Description}: only the description is tuned
UpdateMount(objs, ent) ==
    {IF o.key = ent.key THEN [o EXCEPT !.description = ent.description] ELSE o : o \in objs}

\* vault.DisableSecretsEngine / vault.DisableAuditDevice / vault.DeleteVaultPolicy
Remove(objs, ent) == Without(objs, ent.key)

\* vault.PutVaultPolicy: writes the rules under the name
PutPolicy(objs, ent) == Without(objs, ent.key) \cup {Entry(ent.key, "", 0, 0, ent.rules)}

\* the orders in which a listing (a Go map, or the appends of the fetch
\* goroutines) can present the objects
Listings(objs) ==
    {l \in [1..Cardinality(objs) -> objs] : \A o \in objs : \E i \in DOMAIN l : l[i] = o}

(***************************************************************************)
(* The inputs of one Apply: the entries of the configuration and the       *)
(* objects on the servers.                                                 *)
(***************************************************************************)
\* the places an entry can be at: <<address, key>>, in configured order
Slots(kind) ==
    LET ks == DesiredKeys(kind)
    IN  [n \in 1..(Len(Addrs) * Len(ks)) |->
            <<Addrs[((n - 1) \div Len(ks)) + 1], ks[((n - 1) % Len(ks)) + 1]>>]

\* the j-th smallest number of I
Nth(I, j) == CHOOSE i \in I : Cardinality({m \in I : m < i}) = j - 1

\* an entry of the configuration
DesiredEntry(kind, a, k) ==
    IF kind = "policy" THEN Entry(k, a, 0, 0, 1) ELSE Entry(k, a, 1, 1, 0)

DesiredChoices(kind) ==
    LET slots == Slots(kind)
    IN  {[j \in 1..Cardinality(I) |->
             DesiredEntry(kind, slots[Nth(I, j)][1], slots[Nth(I, j)][2])] :
         I \in {J \in SUBSET (1..Len(slots)) : Cardinality(J) <= MaxEntries}}

\* <<type, description>> of a mount on a server: that of the configuration, or one
\* that differs from it in one field
MountVariants == {<<1, 1>>, <<1, 2>>, <<2, 1>>}

\* rules of a policy on a server
RuleVariants == {1, 2}

ObjectsAt(kind, k) ==
    IF kind = "policy"
    THEN {Entry(k, "", 0, 0, r) : r \in RuleVariants}
    ELSE {Entry(k, "", v[1], v[2], 0) : v \in MountVariants}

RemoteChoices(kind) ==
    LET keys == {KindKeys(kind)[i] : i \in 1..Len(KindKeys(kind))}
        perInstance == {S \in SUBSET (UNION {ObjectsAt(kind, k) : k \in keys}) :
                            /\ Cardinality(S) <= MaxObjects
                            /\ \A o1, o2 \in S : o1.key = o2.key => o1 = o2}
    IN  {r \in [AddrSet -> perInstance] :
            Cardinality(UNION {{<<a, o>> : o \in r[a]} : a \in AddrSet}) <= MaxObjects}

(***************************************************************************)
(* Helpers of the Apply functions.                                         *)
(***************************************************************************)
kind == IF mod \in 1..Len(RunOrder) THEN RunOrder[mod] ELSE "none"

\* a remote call or a dry-run report
Op(call, inst, k, ok) == [call |-> call, inst |-> inst, key |-> k, ok |-> ok]

\* a grouping that hands every entry to every instance
DesiredOf_All(ents, a) == ents

\* instancesToDesired...[e.Instance.Address] = append(..., e)
DesiredOf(ents, a) ==
    LET here(e) == e.inst = a
    IN  SelectSeq(ents, here)

\* the addresses of the entries, each once, in the order of their first entry
FirstInstances(ents) ==
    LET first(i) == \A j \in 1..(i - 1) : ents[j].inst # ents[i].inst
        idx == {i \in 1..Len(ents) : first(i)}
    IN  [j \in 1..Cardinality(idx) |-> ents[Nth(idx, j)].inst]

\* a path as the sequence of its segments, each ending in "/"
Segments(path) == IF path = "sys/raw/" THEN <<"sys/", "raw/">> ELSE <<path>>

\* strings.HasPrefix, for a prefix that ends in "/": the prefix's segments begin the path's
HasPrefix(path, prefix) ==
    LET s == Segments(path)
        p == Segments(prefix)
    IN  Len(p) <= Len(s) /\ SubSeq(s, 1, Len(p)) = p

\* a filter that does not know the mounts under sys/
isDefaultMount_NoSys(path) ==
    \/ HasPrefix(path, "cubbyhole/")
    \/ HasPrefix(path, "identity/")
    \/ HasPrefix(path, "secret/")

isDefaultMount(path) ==
    \/ HasPrefix(path, "cubbyhole/")
    \/ HasPrefix(path, "identity/")
    \/ HasPrefix(path, "secret/")
    \/ HasPrefix(path, "sys/")

isDefaultPolicy(name) == name = "root" \/ name = "default"

\* one call per item, in the order of items
Calls(call, instance, items) == [i \in 1..Len(items) |-> Op(call, instance, items[i].key, TRUE)]

\* what a successful call leaves on the server
Effect(call, objs, ent) ==
    CASE call = "enable" -> EnableMount(objs, ent)
      [] call = "update" -> UpdateMount(objs, ent)
      [] call = "put"    -> PutPolicy(objs, ent)
      [] call = "remove" -> Remove(objs, ent)

RECURSIVE ApplyAll(_, _, _)
\* objs after the call for each item in turn
ApplyAll(call, objs, items) ==
    IF items = <<>> THEN objs
    ELSE ApplyAll(call, Effect(call, objs, Head(items)), Tail(items))

NotDefaultMount(items) ==
    LET keep(e) == ~isDefaultMount(e.key)
    IN  SelectSeq(items, keep)

NotDefaultPolicy(items) ==
    LET keep(e) == ~isDefaultPolicy(e.key)
    IN  SelectSeq(items, keep)

(***************************************************************************)
(* Spec: one run.  The registry starts with the configured addresses and   *)
(* no invalid one; the Apply functions run in RunOrder.                    *)
(***************************************************************************)
Init ==
    /\ DiffIdle /\ PoolIdle
    /\ InstanceAddresses = Addrs /\ invalidInstances = {} /\ CallersIdle
    /\ dryRun \in BOOLEAN
    /\ mod = 1 /\ pc = "begin"
    /\ entries = <<>>
    /\ remote = [a \in AddrSet |-> {}] /\ remote0 = [a \in AddrSet |-> {}]
    /\ existing = [a \in AddrSet |-> <<>>]
    /\ addrs = <<>> /\ ai = 0 /\ todo = NoTodo /\ ops = <<>>
    /\ marked = {} /\ markedBefore = {}

\* yaml.Unmarshal(entriesBytes, &entries) succeeds; the entries are grouped by
\* instance address (DesiredOf).  The servers hold some objects of the kind.
Unmarshal ==
    /\ pc = "begin" /\ kind \in Kinds
    /\ \E d \in DesiredChoices(kind), r \in RemoteChoices(kind) :
           /\ entries' = d
           /\ remote' = r /\ remote0' = r
    /\ IF kind = "audit"
       THEN pc' = "loop" /\ addrs' = ValidAddresses /\ ai' = 1
       ELSE pc' = "fetch" /\ UNCHANGED <<addrs, ai>>
    /\ UNCHANGED <<dryRun, mod, existing, todo, ops, marked, markedBefore, regVars,
                   diffVars, poolVars>>

\* yaml.Unmarshal fails: log.Fatal ends the process
UnmarshalFails ==
    /\ pc = "begin" /\ kind \in Kinds
    /\ pc' = "fatal"
    /\ UNCHANGED <<dryRun, mod, entries, remote, remote0, existing, addrs, ai, todo, ops,
                   marked, markedBefore, regVars, diffVars, poolVars>>

(***************************************************************************)
(* audit.Apply                                                             *)
(***************************************************************************)
AuditReports(instance, toBeWritten, toBeDeleted) ==
    Calls("report enable", instance, toBeWritten) \o Calls("report disable", instance, toBeDeleted)

\* one pass of the loop over the instances up to the end of the dry-run branch:
\* ListAuditDevices, on failure AddInvalid and continue; DiffItems; the reports
AuditList ==
    /\ kind = "audit" /\ pc = "loop" /\ ai <= Len(addrs)
    /\ LET instance == addrs[ai]
       IN  \E ok \in BOOLEAN :
             IF ~ok
             THEN /\ ops' = Append(ops, Op("ListAuditDevices", instance, "", FALSE))
                  /\ invalidInstances' = AddInvalid(invalidInstances, instance)
                  /\ marked' = marked \cup {instance}
                  /\ ai' = ai + 1
                  /\ UNCHANGED <<pc, todo, existing>>
             ELSE \E existingAduits \in Listings(remote[instance]) :
                    LET diff == DiffItems("audit", asItems(DesiredOf(entries, instance)),
                                          asItems(existingAduits))
                        toBeWritten == diff[1]
                        toBeDeleted == diff[2]
                        listed == Append(ops, Op("ListAuditDevices", instance, "", TRUE))
                    IN  /\ existing' = [existing EXCEPT ![instance] = existingAduits]
                        /\ UNCHANGED <<invalidInstances, marked>>
                        /\ IF dryRun
                           THEN /\ ops' = listed \o AuditReports(instance, toBeWritten, toBeDeleted)
                                /\ ai' = ai + 1
                                /\ UNCHANGED <<pc, todo>>
                           ELSE /\ ops' = listed
                                /\ todo' = [toBeWritten |-> toBeWritten, toBeDeleted |-> toBeDeleted]
                                /\ pc' = "apply"
                                /\ UNCHANGED ai
    /\ UNCHANGED <<dryRun, mod, entries, remote, remote0, addrs, markedBefore, InstanceAddresses,
                   regLock, marker, reader, diffVars, poolVars>>

\* one pass of the loop over toBeWritten: EnableAuditDevice, on failure AddInvalid
\* and continue with the next entry
AuditEnable ==
    /\ kind = "audit" /\ pc = "apply" /\ todo.toBeWritten # <<>>
    /\ LET instance == addrs[ai]
           ent == Head(todo.toBeWritten)
       IN  \E ok \in BOOLEAN :
             /\ ops' = Append(ops, Op("EnableAuditDevice", instance, ent.key, ok))
             /\ IF ok
                THEN /\ remote' = [remote EXCEPT ![instance] = EnableMount(@, ent)]
                     /\ UNCHANGED <<invalidInstances, marked>>
                ELSE /\ invalidInstances' = AddInvalid(invalidInstances, instance)
                     /\ marked' = marked \cup {instance}
                     /\ UNCHANGED remote
    /\ todo' = [todo EXCEPT !.toBeWritten = Tail(@)]
    /\ UNCHANGED <<dryRun, mod, pc, entries, remote0, existing, addrs, ai, markedBefore,
                   InstanceAddresses, regLock, marker, reader, diffVars, poolVars>>

\* a loop over toBeDeleted that ends the process when DisableAuditDevice fails
AuditDisable_Fatal ==
    /\ kind = "audit" /\ pc = "apply" /\ todo.toBeWritten = <<>> /\ todo.toBeDeleted # <<>>
    /\ LET instance == addrs[ai]
           ent == Head(todo.toBeDeleted)
       IN  \E ok \in BOOLEAN :
             /\ ops' = Append(ops, Op("DisableAuditDevice", instance, ent.key, ok))
             /\ IF ok
                THEN /\ remote' = [remote EXCEPT ![instance] = Remove(@, ent)]
                     /\ UNCHANGED <<invalidInstances, marked, pc>>
                ELSE /\ pc' = "fatal"
                     /\ UNCHANGED <<remote, invalidInstances, marked>>
    /\ todo' = [todo EXCEPT !.toBeDeleted = Tail(@)]
    /\ UNCHANGED <<dryRun, mod, entries, remote0, existing, addrs, ai, markedBefore,
                   InstanceAddresses, regLock, marker, reader, diffVars, poolVars>>

\* one pass of the loop over toBeDeleted: DisableAuditDevice, on failure AddInvalid
\* and continue with the next entry
AuditDisable ==
    /\ kind = "audit" /\ pc = "apply" /\ todo.toBeWritten = <<>> /\ todo.toBeDeleted # <<>>
    /\ LET instance == addrs[ai]
           ent == Head(todo.toBeDeleted)
       IN  \E ok \in BOOLEAN :
             /\ ops' = Append(ops, Op("DisableAuditDevice", instance, ent.key, ok))
             /\ IF ok
                THEN /\ remote' = [remote EXCEPT ![instance] = Remove(@, ent)]
                     /\ UNCHANGED <<invalidInstances, marked>>
                ELSE /\ invalidInstances' = AddInvalid(invalidInstances, instance)
                     /\ marked' = marked \cup {instance}
                     /\ UNCHANGED remote
    /\ todo' = [todo EXCEPT !.toBeDeleted = Tail(@)]
    /\ UNCHANGED <<dryRun, mod, pc, entries, remote0, existing, addrs, ai, markedBefore,
                   InstanceAddresses, regLock, marker, reader, diffVars, poolVars>>

\* both loops are through: the next instance
AuditNext ==
    /\ kind = "audit" /\ pc = "apply" /\ todo = NoTodo
    /\ pc' = "loop" /\ ai' = ai + 1
    /\ UNCHANGED <<dryRun, mod, entries, remote, remote0, existing, addrs, todo, ops, marked,
                   markedBefore, regVars, diffVars, poolVars>>

\* after the loop: vault.RemoveInstanceFromReconciliation()
AuditRemove ==
    /\ kind = "audit" /\ pc = "loop" /\ ai > Len(addrs)
    /\ InstanceAddresses' = RemoveInstanceFromReconciliation(InstanceAddresses, invalidInstances)
    /\ pc' = "end"
    /\ UNCHANGED <<dryRun, mod, entries, remote, remote0, existing, addrs, ai, todo, ops, marked,
                   markedBefore, invalidInstances, regLock, marker, reader, diffVars, poolVars>>

(***************************************************************************)
(* secretsengine.Apply                                                     *)
(***************************************************************************)
\* the instances the fetch loop calls: for _, e := range entries, each address once
FetchFrom(ents) == FirstInstances(ents)

\* the fetch: ListSecretsEngines for each instance of the entries, then the
\* existing engines of each such instance as entries (Instance unset)
EnginesFetch ==
    /\ kind = "engines" /\ pc = "fetch"
    /\ LET insts == FetchFrom(entries)
           asked == {insts[i] : i \in 1..Len(insts)}
       IN  /\ ops' = ops \o [i \in 1..Len(insts) |-> Op("ListSecretsEngines", insts[i], "", TRUE)]
           /\ existing' \in {f \in [AddrSet -> UNION {Listings(remote[a]) : a \in AddrSet} \cup {<<>>}] :
                                \A a \in AddrSet :
                                    f[a] \in (IF a \in asked THEN Listings(remote[a]) ELSE {<<>>})}
    /\ pc' = "loop" /\ addrs' = ValidAddresses /\ ai' = 1
    /\ UNCHANGED <<dryRun, mod, entries, remote, remote0, todo, marked, markedBefore, regVars,
                   diffVars, poolVars>>

\* a reconcile loop that disables before it enables and updates
EnginesReconcile_DeleteFirst ==
    /\ kind = "engines" /\ pc = "loop" /\ ai <= Len(addrs)
    /\ LET instance == addrs[ai]
           diff == DiffItems("engines", asItems(DesiredOf(entries, instance)),
                             asItems(existing[instance]))
           toBeWritten == diff[1]
           toBeDeleted == diff[2]
           toBeUpdated == diff[3]
       IN  IF dryRun
           THEN /\ ops' = ops \o Calls("report enable", instance, toBeWritten)
                             \o Calls("report update", instance, toBeUpdated)
                             \o Calls("report disable", instance, NotDefaultMount(toBeDeleted))
                /\ UNCHANGED remote
           ELSE /\ ops' = ops \o Calls("DisableSecretsEngine", instance, NotDefaultMount(toBeDeleted))
                             \o Calls("EnableSecretsEngine", instance, toBeWritten)
                             \o Calls("UpdateSecretsEngine", instance, toBeUpdated)
                /\ remote' = [remote EXCEPT ![instance] =
                                 ApplyAll("update",
                                          ApplyAll("enable",
                                                   ApplyAll("remove", @, NotDefaultMount(toBeDeleted)),
                                                   toBeWritten),
                                          toBeUpdated)]
    /\ ai' = ai + 1
    /\ UNCHANGED <<dryRun, mod, pc, entries, remote0, existing, addrs, todo, marked, markedBefore,
                   regVars, diffVars, poolVars>>

\* one pass of the reconcile loop: DiffItems, then the reports of a dry run or
\* the enables, the updates and the disables of the non-default mounts
EnginesReconcile ==
    /\ kind = "engines" /\ pc = "loop" /\ ai <= Len(addrs)
    /\ LET instance == addrs[ai]
           diff == DiffItems("engines", asItems(DesiredOf(entries, instance)),
                             asItems(existing[instance]))
           toBeWritten == diff[1]
           toBeDeleted == diff[2]
           toBeUpdated == diff[3]
       IN  IF dryRun
           THEN /\ ops' = ops \o Calls("report enable", instance, toBeWritten)
                             \o Calls("report update", instance, toBeUpdated)
                             \o Calls("report disable", instance, NotDefaultMount(toBeDeleted))
                /\ UNCHANGED remote
           ELSE /\ ops' = ops \o Calls("EnableSecretsEngine", instance, toBeWritten)
                             \o Calls("UpdateSecretsEngine", instance, toBeUpdated)
                             \o Calls("DisableSecretsEngine", instance, NotDefaultMount(toBeDeleted))
                /\ remote' = [remote EXCEPT ![instance] =
                                 ApplyAll("remove",
                                          ApplyAll("update",
                                                   ApplyAll("enable", @, toBeWritten),
                                                   toBeUpdated),
                                          NotDefaultMount(toBeDeleted))]
    /\ ai' = ai + 1
    /\ UNCHANGED <<dryRun, mod, pc, entries, remote0, existing, addrs, todo, marked, markedBefore,
                   regVars, diffVars, poolVars>>

(***************************************************************************)
(* policy.Apply                                                            *)
(***************************************************************************)
RECURSIVE GetCalls(_, _)
\* GetVaultPolicy for every entry of f, instance after instance
GetCalls(insts, f) ==
    IF insts = <<>> THEN <<>>
    ELSE Calls("GetVaultPolicy", Head(insts), f[Head(insts)]) \o GetCalls(Tail(insts), f)

\* the fetch: ListVaultPolicies for each instance of the entries, then one
\* GetVaultPolicy per listed name (the fan-out of SpecPool), the results
\* appended in the order the goroutines finish
PolicyFetch ==
    /\ kind = "policy" /\ pc = "fetch"
    /\ LET insts == FetchFrom(entries)
           asked == {insts[i] : i \in 1..Len(insts)}
       IN  \E f \in [AddrSet -> UNION {Listings(remote[a]) : a \in AddrSet} \cup {<<>>}] :
             /\ \A a \in AddrSet :
                    f[a] \in (IF a \in asked THEN Listings(remote[a]) ELSE {<<>>})
             /\ existing' = f
             /\ ops' = ops \o [i \in 1..Len(insts) |-> Op("ListVaultPolicies", insts[i], "", TRUE)]
                           \o GetCalls(insts, f)
    /\ pc' = "loop" /\ addrs' = ValidAddresses /\ ai' = 1
    /\ UNCHANGED <<dryRun, mod, entries, remote, remote0, todo, marked, markedBefore, regVars,
                   diffVars, poolVars>>

\* a reconcile loop that takes the live branch whatever dryRun is
PolicyReconcile_NoDryRun ==
    /\ kind = "policy" /\ pc = "loop" /\ ai <= Len(addrs)
    /\ LET instance == addrs[ai]
           diff == DiffItems("policy", asItems(DesiredOf(entries, instance)),
                             asItems(existing[instance]))
           toBeWritten == diff[1]
           toBeDeleted == diff[2]
       IN  IF dryRun /\ FALSE
           THEN /\ ops' = ops \o Calls("report write", instance, toBeWritten)
                             \o Calls("report delete", instance, NotDefaultPolicy(toBeDeleted))
                /\ UNCHANGED remote
           ELSE /\ ops' = ops \o Calls("PutVaultPolicy", instance, toBeWritten)
                             \o Calls("DeleteVaultPolicy", instance, NotDefaultPolicy(toBeDeleted))
                /\ remote' = [remote EXCEPT ![instance] =
                                 ApplyAll("remove", ApplyAll("put", @, toBeWritten),
                                          NotDefaultPolicy(toBeDeleted))]
    /\ ai' = ai + 1
    /\ UNCHANGED <<dryRun, mod, pc, entries, remote0, existing, addrs, todo, marked, markedBefore,
                   regVars, diffVars, poolVars>>

\* one pass of the reconcile loop: DiffItems (toBeUpdated is dropped), then the
\* reports of a dry run or the puts and the deletes of the non-default policies
PolicyReconcile ==
    /\ kind = "policy" /\ pc = "loop" /\ ai <= Len(addrs)
    /\ LET instance == addrs[ai]
           diff == DiffItems("policy", asItems(DesiredOf(entries, instance)),
                             asItems(existing[instance]))
           toBeWritten == diff[1]
           toBeDeleted == diff[2]
       IN  IF dryRun
           THEN /\ ops' = ops \o Calls("report write", instance, toBeWritten)
                             \o Calls("report delete", instance, NotDefaultPolicy(toBeDeleted))
                /\ UNCHANGED remote
           ELSE /\ ops' = ops \o Calls("PutVaultPolicy", instance, toBeWritten)
                             \o Calls("DeleteVaultPolicy", instance, NotDefaultPolicy(toBeDeleted))
                /\ remote' = [remote EXCEPT ![instance] =
                                 ApplyAll("remove", ApplyAll("put", @, toBeWritten),
                                          NotDefaultPolicy(toBeDeleted))]
    /\ ai' = ai + 1
    /\ UNCHANGED <<dryRun, mod, pc, entries, remote0, existing, addrs, todo, marked, markedBefore,
                   regVars, diffVars, poolVars>>

\* the reconcile loop of secretsengine.Apply or policy.Apply is through
LoopEnd ==
    /\ kind \in {"engines", "policy"} /\ pc = "loop" /\ ai > Len(addrs)
    /\ pc' = "end"
    /\ UNCHANGED <<dryRun, mod, entries, remote, remote0, existing, addrs, ai, todo, ops, marked,
                   markedBefore, regVars, diffVars, poolVars>>

\* Apply returns; the orchestrator calls the next Apply, or the run is over
Return ==
    /\ pc = "end"
    /\ mod' = mod + 1
    /\ pc' = IF mod < Len(RunOrder) THEN "begin" ELSE "exit"
    /\ entries' = <<>>
    /\ remote' = [a \in AddrSet |-> {}] /\ remote0' = [a \in AddrSet |-> {}]
    /\ existing' = [a \in AddrSet |-> <<>>]
    /\ addrs' = <<>> /\ ai' = 0 /\ todo' = NoTodo /\ ops' = <<>>
    /\ markedBefore' = marked
    /\ UNCHANGED <<dryRun, marked, regVars, diffVars, poolVars>>

Next ==
    \/ Unmarshal
    \/ UnmarshalFails
    \/ AuditList
    \/ AuditEnable
    \/ AuditDisable
    \/ AuditNext
    \/ AuditRemove
    \/ EnginesFetch
    \/ EnginesReconcile
    \/ PolicyFetch
    \/ PolicyReconcile
    \/ LoopEnd
    \/ Return

Spec == Init /\ [][Next]_vars

(***************************************************************************)
(* Claims about the run (Spec).                                            *)
(***************************************************************************)
Nothing == <<<<>>, <<>>, <<>>>>

\* the calls that go to a server (the others are the reports of a dry run)
RemoteCalls ==
    {"ListAuditDevices", "EnableAuditDevice", "DisableAuditDevice",
     "ListSecretsEngines", "EnableSecretsEngine", "UpdateSecretsEngine", "DisableSecretsEngine",
     "ListVaultPolicies", "GetVaultPolicy", "PutVaultPolicy", "DeleteVaultPolicy"}

AllCallsSucceeded == \A i \in 1..Len(ops) : ops[i].ok

\* the configured addresses without those of set m, in configured order
ConfiguredWithout(m) ==
    LET keep(a) == a \notin m
    IN  SelectSeq(Addrs, keep)

\* C3: after a live Apply in which every remote call succeeded, DiffItems of the
\* same desired entries against what each reconciled instance now holds returns
\* three empty sequences.
C3_Idempotent ==
    (pc = "end" /\ ~dryRun /\ AllCallsSucceeded) =>
        \A i \in 1..Len(addrs) : \A now \in Listings(remote[addrs[i]]) :
            DiffItems(kind, asItems(DesiredOf(entries, addrs[i])), asItems(now)) = Nothing

C10_InvalidNeverCalled ==
    /\ \A i \in 1..Len(ops) :
           ops[i].call \in RemoteCalls => ops[i].inst \notin markedBefore
    /\ pc = "end" => \A a \in AddrSet : a \notin marked => \E i \in 1..Len(addrs) : addrs[i] = a

(***************************************************************************)
(* The calls by what they do to a server.                                  *)
(***************************************************************************)
CreateCalls == {"EnableAuditDevice", "EnableSecretsEngine", "PutVaultPolicy"}

UpdateCalls == {"UpdateSecretsEngine"}

DeleteCalls == {"DisableAuditDevice", "DisableSecretsEngine", "DeleteVaultPolicy"}

MutatingCalls == CreateCalls \cup UpdateCalls \cup DeleteCalls

\* the reports of a dry run for a delete
DeleteReports == {"report disable", "report delete"}

\* there is a call (or report) of set calls for key k at instance a
Issued(calls, a, k) ==
    \E i \in 1..Len(ops) : ops[i].call \in calls /\ ops[i].inst = a /\ ops[i].key = k

\* the default objects, as the specification names them: a secrets engine under
\* cubbyhole/, identity/, secret/ or sys/, the policies root and default
Protected(k) ==
    IF kind = "engines"
    THEN \E p \in {"cubbyhole/", "identity/", "secret/", "sys/"} : HasPrefix(k, p)
    ELSE kind = "policy" /\ k \in {"root", "default"}

\* C11: after a call to an instance failed, the instance is marked and the
\* Apply makes no further remote call to it; the other instances are still
\* visited.
C11_FailedInstanceLeftAlone ==
    /\ \A i \in 1..Len(ops) : ~ops[i].ok => ops[i].inst \in marked
    /\ \A i, j \in 1..Len(ops) :
           (i < j /\ ~ops[i].ok /\ ops[j].call \in RemoteCalls) => ops[j].inst # ops[i].inst
    /\ (kind = "audit" /\ pc = "end") =>
           \A n \in 1..Len(addrs) : Issued({"ListAuditDevices"}, addrs[n], "")

\* C12: in a dry run no Apply makes a mutating call, and every server holds
\* what it held when the Apply began.
C12_DryRunChangesNothing ==
    dryRun => /\ remote = remote0
              /\ \A i \in 1..Len(ops) : ops[i].call \notin MutatingCalls

\* a dry run of secretsengine.Apply that reported an enable, an update and a disable
C12_Witness ==
    /\ dryRun /\ kind = "engines" /\ pc = "end"
    /\ Issued({"report enable"}, "x", "kv/")
    /\ Issued({"report update"}, "x", "sys/raw/")
    /\ Issued({"report disable"}, "x", "pki/")
    /\ remote["x"] # {}

\* C13: no delete call (and no report of one) is for a default object, and a
\* default object a server held when the Apply began is still there.
C13_DefaultsNeverDeleted ==
    /\ \A i \in 1..Len(ops) :
           ops[i].call \in DeleteCalls \cup DeleteReports => ~Protected(ops[i].key)
    /\ \A a \in AddrSet : \A o \in remote0[a] :
           Protected(o.key) => \E now \in remote[a] : now.key = o.key

\* a live secretsengine.Apply found sys/raw/ on x, which the configuration does not
\* name for x, disabled pki/ and left sys/raw/
C13_Witness ==
    /\ ~dryRun /\ kind = "engines" /\ pc = "end"
    /\ addrs = Addrs
    /\ \E i \in 1..Len(existing["x"]) : existing["x"][i].key = "sys/raw/"
    /\ \A i \in 1..Len(entries) : entries[i].inst = "x" => entries[i].key = "kv/"
    /\ Issued(DeleteCalls, "x", "pki/")
    /\ \E o \in remote["x"] : o.key = "sys/raw/"

\* C14: after a live Apply whose calls all succeeded, every item of toBeWritten
\* got a create call, every item of toBeUpdated an update call that left the
\* desired item on the server, every non-default item of toBeDeleted a delete call.
C14_EveryChangeApplied ==
    (~dryRun /\ pc = "end" /\ AllCallsSucceeded) =>
        \A n \in 1..Len(addrs) :
            LET a == addrs[n]
                diff == DiffItems(kind, asItems(DesiredOf(entries, a)), asItems(existing[a]))
            IN  /\ \A i \in 1..Len(diff[1]) : Issued(CreateCalls, a, diff[1][i].key)
                /\ \A i \in 1..Len(diff[3]) :
                       /\ Issued(UpdateCalls, a, diff[3][i].key)
                       /\ \E o \in remote[a] :
                              o.key = diff[3][i].key /\ Equals(kind, diff[3][i], o)
                /\ \A i \in 1..Len(diff[2]) :
                       ~Protected(diff[2][i].key) => Issued(DeleteCalls, a, diff[2][i].key)

\* create 1, update 2, delete 3
Rank(call) == IF call \in CreateCalls THEN 1 ELSE IF call \in UpdateCalls THEN 2 ELSE 3

\* C15: of two mutating calls of one Apply to the same instance, the earlier
\* is never a delete before an update or a create, nor an update before a create.
C15_CreateUpdateDelete ==
    \A i, j \in 1..Len(ops) :
        (/\ i < j
         /\ ops[i].inst = ops[j].inst
         /\ ops[i].call \in MutatingCalls
         /\ ops[j].call \in MutatingCalls) => Rank(ops[i].call) <= Rank(ops[j].call)

\* a live secretsengine.Apply enabled kv/, updated sys/raw/ and disabled pki/ on x
C15_Witness ==
    /\ ~dryRun /\ kind = "engines" /\ pc = "end"
    /\ Issued(CreateCalls, "x", "kv/")
    /\ Issued(UpdateCalls, "x", "sys/raw/")
    /\ Issued(DeleteCalls, "x", "pki/")

C19_OpsStayOnTheirInstance ==
    \A i \in 1..Len(ops) :
        /\ ops[i].call \in CreateCalls \cup UpdateCalls =>
               \E n \in 1..Len(entries) :
                   entries[n].key = ops[i].key /\ entries[n].inst = ops[i].inst
        /\ ops[i].call \in DeleteCalls =>
               \E o \in remote0[ops[i].inst] : o.key = ops[i].key

\* a live secretsengine.Apply with kv/ for x and sys/raw/ for y enabled each on its instance
C19_Witness ==
    /\ ~dryRun /\ kind = "engines" /\ pc = "end"
    /\ entries = <<Entry("kv/", "x", 1, 1, 0), Entry("sys/raw/", "y", 1, 1, 0)>>
    /\ Issued(CreateCalls, "x", "kv/")
    /\ Issued(CreateCalls, "y", "sys/raw/")

\* C20: when secretsengine.Apply or policy.Apply is through, every object that
\* is not a default one, that an instance of the list held at the start and that
\* the configuration does not name for the instance has a delete call or report.
C20_UnwantedRemovedEverywhere ==
    (kind \in {"engines", "policy"} /\ pc = "end") =>
        \A n \in 1..Len(addrs) : \A o \in remote0[addrs[n]] :
            (/\ ~Protected(o.key)
             /\ \A i \in 1..Len(entries) :
                    ~(entries[i].inst = addrs[n] /\ entries[i].key = o.key))
            => Issued(DeleteCalls \cup DeleteReports, addrs[n], o.key)

====
